---- MODULE Spec2Model ----
(* Dashboard service (src/app.py): two Flask handlers over one MongoDB      *)
(* collection with a unique compound index on (userId, dashboardId).        *)
(* Every store call of a handler is one atomic step; the steps of           *)
(* concurrent requests interleave freely.                                   *)
EXTENDS Integers, Sequences, FiniteSets, TLC

(* ---------------- bounds ---------------- *)
MaxRequests == 3
MaxClock == 1
MaxRejected == 1
MaxOutages == 1

(* ---------------- values ---------------- *)
DemoUser == "demo-user"
Alice == "alice"
UserIds == {DemoUser, Alice}
DashboardIds == {"d1", "d2"}
Layouts == {<<>>, <<"a">>}

\* request.headers.get("X-User-Id"): None when absent, else the string
NoHeader == [present |-> FALSE, value |-> ""]
Header(v) == [present |-> TRUE, value |-> v]
Headers == {NoHeader, Header(""), Header(Alice)}

\* request bodies: top is what the body parses to, n the number of its
\* members, ltype the JSON type of its "layout" member
Body(top, n, ltype, layout) == [top |-> top, n |-> n, ltype |-> ltype, layout |-> layout]
NoBody == Body("none", 0, "absent", <<>>)
BadBodies == {Body("malformed", 0, "absent", <<>>),
              Body("object", 0, "absent", <<>>),
              Body("object", 1, "absent", <<>>),
              Body("object", 1, "null", <<>>),
              Body("object", 1, "string", <<>>),
              Body("array", 0, "absent", <<>>)}
ArrayBody == Body("array", 1, "absent", <<>>)
ListBodies == {Body("object", 1, "list", l) : l \in Layouts}
Bodies == BadBodies \cup {ArrayBody} \cup ListBodies

Null == [null |-> TRUE]

\* col: the documents of user_dashboards; clock: the server's UTC clock;
\* reqs: the requests in arrival order, each with its handler's locals and its answer;
\* lastPut: for each key, the request whose upsert was applied last (0: none yet)
VARIABLES col, clock, reqs, lastPut
vars == <<col, clock, reqs, lastPut>>

Keys == UserIds \X DashboardIds

(* ---------------- document store ---------------- *)
\* a filter that leaves userId out
MatchingAnyUser(c, userId, dashboardId) ==
    {d \in c : d.dashboardId = dashboardId}

\* the documents of c that match the filter {userId, dashboardId}
Matching(c, userId, dashboardId) ==
    {d \in c : d.userId = userId /\ d.dashboardId = dashboardId}

FindOne(c, userId, dashboardId) ==
    IF Matching(c, userId, dashboardId) = {} THEN Null
    ELSE CHOOSE d \in Matching(c, userId, dashboardId) : TRUE

\* the unique index on (userId, dashboardId)
UniqueIndex(c) ==
    \A d1, d2 \in c :
        (d1.userId = d2.userId /\ d1.dashboardId = d2.dashboardId) => d1 = d2

\* a collection without the unique index
InsertOneNoIndex(c, doc) == [ok |-> TRUE, col |-> c \cup {doc}]

\* insert_one: raises DuplicateKeyError when the index would be violated
InsertOne(c, doc) ==
    IF UniqueIndex(c \cup {doc})
    THEN [ok |-> TRUE, col |-> c \cup {doc}]
    ELSE [ok |-> FALSE, col |-> c]

\* an update that appends to the stored layout
SetFieldsMerge(d, layout, now) ==
    [d EXCEPT !.layout = d.layout \o layout, !.updatedAt = now]

\* $set of layout and updatedAt on one document
SetFields(d, layout, now) == [d EXCEPT !.layout = layout, !.updatedAt = now]

\* update_one(filter, {$set: ...}, upsert=True); id is the _id of an upserted document
UpdateOne(c, userId, dashboardId, layout, now, id) ==
    IF Matching(c, userId, dashboardId) = {}
    THEN [col |-> c \cup {[id |-> id, userId |-> userId, dashboardId |-> dashboardId,
                            layout |-> layout, updatedAt |-> now]},
          upserted_id |-> id]
    ELSE LET d == FindOne(c, userId, dashboardId)
         IN [col |-> (c \ {d}) \cup {SetFields(d, layout, now)},
             upserted_id |-> 0]

(* ---------------- helpers ---------------- *)
GetCurrentUserId(header) ==
    IF (~header.present) \/ header.value = "" THEN DemoUser ELSE header.value

\* isoformat() + "Z"
IsoZ(t) == [iso |-> t, suffix |-> "Z"]

SerializeDashboard(doc) ==
    IF doc = Null THEN Null
    ELSE [userId |-> doc.userId, dashboardId |-> doc.dashboardId,
          layout |-> doc.layout, updatedAt |-> IsoZ(doc.updatedAt)]

\* request.get_json(silent=True) or {}
GetJsonOrEmpty(body) ==
    IF body.top = "malformed" \/ body.n = 0
    THEN Body("object", 0, "absent", <<>>)
    ELSE body

\* layout is None or not isinstance(layout, list)
LayoutRejected(data) == data.ltype = "absent" \/ data.ltype = "null" \/ data.ltype # "list"

\* a default document that is not empty
DefaultDocPrefilled(id, userId, dashboardId, now) ==
    [id |-> id, userId |-> userId, dashboardId |-> dashboardId,
     layout |-> <<"a">>, updatedAt |-> now]

DefaultDoc(id, userId, dashboardId, now) ==
    [id |-> id, userId |-> userId, dashboardId |-> dashboardId,
     layout |-> <<>>, updatedAt |-> now]

(* ---------------- responses ---------------- *)
Resp(code, json, error, cause, status, dashboard) ==
    [code |-> code, json |-> json, error |-> error, cause |-> cause,
     status |-> status, dashboard |-> dashboard]
NoResp == Resp(0, FALSE, "", "", "", Null)
\* an exception that leaves the handler: Flask answers 500 without the JSON envelope
Unhandled(cause) == Resp(500, FALSE, "", cause, "", Null)
GetOk(doc) == Resp(200, TRUE, "", "", "", SerializeDashboard(doc))
GetCreateFailed(cause) == Resp(500, TRUE, "Failed to create default dashboard", cause, "", Null)
BadRequest == Resp(400, TRUE, "Field 'layout' (array) is required", "", "", Null)
PutFailed(cause) == Resp(500, TRUE, "Failed to upsert dashboard", cause, "", Null)

\* a handler that falls back to reading the existing document
GetInsertResponseFallback(c, doc, res) ==
    IF res.ok THEN GetOk(doc) ELSE GetOk(FindOne(c, doc.userId, doc.dashboardId))

\* lines 88-93: the answer after insert_one returned or raised DuplicateKeyError
GetInsertResponse(c, doc, res) ==
    IF res.ok THEN GetOk(doc) ELSE GetCreateFailed("duplicate key")

\* a status taken from the wrong branch
PutStatusInverted(upserted_id) == IF upserted_id = 0 THEN "created" ELSE "updated"

PutStatus(upserted_id) == IF upserted_id # 0 THEN "created" ELSE "updated"
PutOk(status, doc) ==
    Resp(IF status = "created" THEN 201 ELSE 200, TRUE, "", "", status, SerializeDashboard(doc))

(* ---------------- requests ---------------- *)
Req(op, user_id, dashboardId, body) ==
    [op |-> op, user_id |-> user_id, dashboardId |-> dashboardId, body |-> body,
     pc |-> "new", now |-> -1, seen |-> "", existed |-> FALSE,
     upserted_id |-> 0, resp |-> NoResp]

UserOf(r) == r.user_id
\* history: whether the key had a document when the request's write executed
HasDocument(c, userId, dashboardId) ==
    \E d \in c : d.userId = userId /\ d.dashboardId = dashboardId
KeyOf(r) == <<UserOf(r), r.dashboardId>>
Ids == 1..Len(reqs)

\* a handler that answers with what it wrote instead of reading back
RereadOwnWrite(c, r) ==
    [id |-> 0, userId |-> r.user_id, dashboardId |-> r.dashboardId,
     layout |-> r.body.layout, updatedAt |-> r.now]

\* lines 150-152: the document read back after the upsert
Reread(c, r) == FindOne(c, r.user_id, r.dashboardId)

\* requests answered without reaching the store, and store calls that failed
Rejected == {i \in Ids : reqs[i].resp.code = 400 \/ reqs[i].resp.cause = "AttributeError"}
Outages == {i \in Ids : reqs[i].resp.cause = "unreachable"}
\* a store call succeeds (TRUE) or fails (FALSE)
StoreAnswers == IF Cardinality(Outages) < MaxOutages THEN BOOLEAN ELSE {TRUE}

Init ==
    /\ col = {}
    /\ clock = 0
    /\ reqs = <<>>
    /\ lastPut = [k \in Keys |-> 0]

\* the server clock advances; it never runs backwards
Tick ==
    /\ clock < MaxClock
    /\ clock' = clock + 1
    /\ UNCHANGED <<col, reqs, lastPut>>

\* get_dashboard, lines 71-79 and 96: resolve the user and look the document up
GetBegin(header, dashboardId, ok) ==
    /\ Len(reqs) < MaxRequests
    /\ ok \in StoreAnswers
    /\ LET r == Req("GET", GetCurrentUserId(header), dashboardId, NoBody)
           doc == FindOne(col, GetCurrentUserId(header), dashboardId)
       IN reqs' = Append(reqs,
             IF ~ok THEN [r EXCEPT !.pc = "done", !.resp = Unhandled("unreachable")]
             ELSE IF doc = Null THEN [r EXCEPT !.pc = "now", !.seen = "absent"]
             ELSE [r EXCEPT !.pc = "done", !.seen = "present", !.resp = GetOk(doc)])
    /\ UNCHANGED <<col, clock, lastPut>>

\* get_dashboard, line 81: now = datetime.utcnow()
GetNow(i) ==
    /\ reqs[i].op = "GET" /\ reqs[i].pc = "now"
    /\ reqs' = [reqs EXCEPT ![i].pc = "insert", ![i].now = clock]
    /\ UNCHANGED <<col, clock, lastPut>>

\* get_dashboard, lines 82-93: insert the default document and answer
GetInsert(i, ok) ==
    /\ reqs[i].op = "GET" /\ reqs[i].pc = "insert"
    /\ ok \in StoreAnswers
    /\ LET r == reqs[i]
           doc == DefaultDoc(i, UserOf(r), r.dashboardId, r.now)
           res == InsertOne(col, doc)
       IN IF ~ok
          THEN /\ col' = col
               /\ reqs' = [reqs EXCEPT ![i].pc = "done",
                                       ![i].resp = GetCreateFailed("unreachable")]
          ELSE /\ col' = res.col
               /\ reqs' = [reqs EXCEPT ![i].pc = "done",
                              ![i].existed = HasDocument(col, UserOf(r), r.dashboardId),
                              ![i].resp = GetInsertResponse(col, doc, res)]
    /\ UNCHANGED <<clock, lastPut>>

\* upsert_dashboard, lines 121-131: resolve the user, parse and validate the body, sample the clock
PutBegin(header, dashboardId, body) ==
    /\ Len(reqs) < MaxRequests
    /\ (body \notin ListBodies) => Cardinality(Rejected) < MaxRejected
    /\ LET r == Req("PUT", GetCurrentUserId(header), dashboardId, body)
           data == GetJsonOrEmpty(body)
       IN reqs' = Append(reqs,
             IF data.top # "object"
             THEN [r EXCEPT !.pc = "done", !.resp = Unhandled("AttributeError")]
             ELSE IF LayoutRejected(data)
             THEN [r EXCEPT !.pc = "done", !.resp = BadRequest]
             ELSE [r EXCEPT !.pc = "update", !.now = clock])
    /\ UNCHANGED <<col, clock, lastPut>>

\* upsert_dashboard, lines 133-147: update_one with upsert
PutUpdate(i, ok) ==
    /\ reqs[i].op = "PUT" /\ reqs[i].pc = "update"
    /\ ok \in StoreAnswers
    /\ LET r == reqs[i]
           res == UpdateOne(col, UserOf(r), r.dashboardId, r.body.layout, r.now, i)
       IN IF ~ok
          THEN /\ col' = col
               /\ lastPut' = lastPut
               /\ reqs' = [reqs EXCEPT ![i].pc = "done",
                                       ![i].resp = PutFailed("unreachable")]
          ELSE /\ col' = res.col
               /\ lastPut' = [lastPut EXCEPT ![KeyOf(r)] = i]
               /\ reqs' = [reqs EXCEPT ![i].pc = "reread",
                              ![i].existed = HasDocument(col, UserOf(r), r.dashboardId),
                              ![i].upserted_id = res.upserted_id]
    /\ UNCHANGED clock

\* upsert_dashboard, lines 149-159: read the document back and answer
PutReread(i, ok) ==
    /\ reqs[i].op = "PUT" /\ reqs[i].pc = "reread"
    /\ ok \in StoreAnswers
    /\ LET r == reqs[i]
           doc == Reread(col, r)
       IN reqs' = [reqs EXCEPT ![i].pc = "done",
                     ![i].resp = IF ok THEN PutOk(PutStatus(r.upserted_id), doc)
                                 ELSE Unhandled("unreachable")]
    /\ UNCHANGED <<col, clock, lastPut>>

Next ==
    \/ Tick
    \/ \E h \in Headers, d \in DashboardIds, ok \in BOOLEAN : GetBegin(h, d, ok)
    \/ \E i \in Ids : GetNow(i)
    \/ \E i \in Ids, ok \in BOOLEAN : GetInsert(i, ok)
    \/ \E h \in Headers, d \in DashboardIds, b \in Bodies : PutBegin(h, d, b)
    \/ \E i \in Ids, ok \in BOOLEAN : PutUpdate(i, ok)
    \/ \E i \in Ids, ok \in BOOLEAN : PutReread(i, ok)

Spec == Init /\ [][Next]_vars

(* ======================= properties ======================= *)
Done(i) == reqs[i].pc = "done"
IsGet(i) == reqs[i].op = "GET"
IsPut(i) == reqs[i].op = "PUT"
SameKey(i, j) == KeyOf(reqs[i]) = KeyOf(reqs[j])
Stored(c, r) == FindOne(c, r.user_id, r.dashboardId)
\* the request that takes the step, as seen in the next state
Acts(i) == i > Len(reqs) \/ reqs'[i] # reqs[i]
Arrives(i) == i = Len(reqs) + 1 /\ Len(reqs') = i
\* GET answered 200 with the default document it inserted
GetCreated(i) == IsGet(i) /\ reqs[i].seen = "absent" /\ reqs[i].resp.code = 200
GetConflict(i) ==
    IsGet(i) /\ reqs[i].seen = "absent" /\ reqs[i].resp.code = 500 /\ reqs[i].resp.json
    /\ reqs[i].resp.error = "Failed to create default dashboard"
    /\ reqs[i].resp.dashboard = Null
PutSucceeded(i) == IsPut(i) /\ Done(i) /\ reqs[i].resp.json /\ reqs[i].resp.code \in {200, 201}

\* C1: in every reachable state the collection holds at most one document per
\* (userId, dashboardId) pair, whatever the interleaving of the GET and PUT store calls.
C1_OneDocumentPerKey ==
    \A k \in Keys : Cardinality(Matching(col, k[1], k[2])) <= 1

\* a default insert was refused by the index while the collection holds documents of two keys
C1_Witness ==
    /\ Cardinality(col) >= 2
    /\ \E i \in Ids : GetConflict(i) /\ reqs[i].resp.cause = "duplicate key"

C2_RacingGets(i, j) ==
    /\ i # j /\ IsGet(i) /\ IsGet(j) /\ SameKey(i, j)
    /\ reqs[i].seen = "absent" /\ reqs[j].seen = "absent"
    /\ Done(i) /\ Done(j)

C3_PutTimestampMonotone ==
    [][\A i \in Ids :
          (IsPut(i) /\ reqs[i].pc = "update" /\ reqs'[i].pc = "reread"
           /\ Stored(col, reqs[i]) # Null)
          => Stored(col', reqs[i]).updatedAt >= Stored(col, reqs[i]).updatedAt]_vars

C4_Creator(i) == GetCreated(i) \/ (PutSucceeded(i) /\ reqs[i].resp.code = 201)

\* C4: a successful PUT answers 201 "created" exactly when no document existed for its
\* key when its upsert executed and 200 "updated" otherwise; per key at most one request
\* (a 201 PUT or a GET that auto-created) ever creates, so a PUT after an auto-creating GET
\* answers 200 and of several PUTs to a fresh key only the first answers 201.
C4_CreatedIffAbsent ==
    /\ \A i \in Ids : PutSucceeded(i) =>
          /\ (~reqs[i].existed) => (reqs[i].resp.code = 201 /\ reqs[i].resp.status = "created")
          /\ reqs[i].existed => (reqs[i].resp.code = 200 /\ reqs[i].resp.status = "updated")
    /\ \A i, j \in Ids : (C4_Creator(i) /\ C4_Creator(j) /\ SameKey(i, j)) => i = j

\* a 201 PUT followed by a 200 PUT, and on another run a 200 PUT after an auto-creating GET
C4_Witness ==
    \E i, j \in Ids :
        /\ SameKey(i, j) /\ PutSucceeded(j) /\ reqs[j].resp.status = "updated"
        /\ PutSucceeded(i) /\ reqs[i].resp.status = "created"

C5_LatestPutStored ==
    \A k \in Keys : lastPut[k] # 0 =>
        /\ Matching(col, k[1], k[2]) # {}
        /\ FindOne(col, k[1], k[2]).layout = reqs[lastPut[k]].body.layout

\* C5: a PUT's upsert leaves exactly the request's layout stored for its key (no merge,
\* the empty list included); the stored layout of a key is always that of the latest PUT
\* applied to it, and a GET that finds the document returns the stored layout.
C5_FullReplacement ==
    /\ [](C5_LatestPutStored)
    /\ [][\A i \in 1..Len(reqs') :
            /\ (i \in Ids /\ IsPut(i) /\ reqs[i].pc = "update" /\ reqs'[i].pc = "reread")
               => Stored(col', reqs[i]).layout = reqs[i].body.layout
            /\ (Arrives(i) /\ reqs'[i].op = "GET" /\ reqs'[i].seen = "present")
               => /\ reqs'[i].resp.code = 200
                  /\ reqs'[i].resp.dashboard.layout = Stored(col, reqs'[i]).layout
                  /\ lastPut[KeyOf(reqs'[i])] # 0 =>
                        reqs'[i].resp.dashboard.layout
                            = reqs[lastPut[KeyOf(reqs'[i])]].body.layout]_vars

\* a GET returned the empty layout of a second PUT that replaced a non-empty one
C5_Witness ==
    \E i, j, g \in Ids :
        /\ i # j /\ SameKey(i, j) /\ SameKey(j, g)
        /\ IsPut(i) /\ IsPut(j) /\ reqs[i].body.layout # <<>> /\ reqs[j].body.layout = <<>>
        /\ reqs[i].upserted_id = i /\ lastPut[KeyOf(reqs[j])] = j
        /\ IsGet(g) /\ reqs[g].seen = "present" /\ reqs[g].resp.dashboard.layout = <<>>

\* C6: a PUT whose body has no "layout" member, has a "layout" that is not a list, or is
\* malformed or empty answers 400 "Field 'layout' (array) is required" and writes
\* nothing to the store.
C6_InvalidBodyRejected ==
    \A i \in Ids : (IsPut(i) /\ reqs[i].body \notin ListBodies) =>
        /\ Done(i)
        /\ reqs[i].resp.code = 400 /\ reqs[i].resp.json
        /\ reqs[i].resp.error = "Field 'layout' (array) is required"
        /\ reqs[i].upserted_id = 0
        /\ \A d \in col : d.id # i
        /\ \A k \in Keys : lastPut[k] # i

C7_OwnDocuments ==
    \A i \in Ids : (IsGet(i) /\ reqs[i].resp.code = 200) =>
        /\ reqs[i].resp.dashboard.userId = reqs[i].user_id
        /\ reqs[i].resp.dashboard.dashboardId = reqs[i].dashboardId
        /\ \/ reqs[i].resp.dashboard.layout = <<>>
           \/ \E j \in Ids : /\ IsPut(j) /\ SameKey(i, j)
                             /\ reqs[j].body.layout = reqs[i].resp.dashboard.layout
        /\ reqs[i].seen = "absent" => reqs[i].resp.dashboard.layout = <<>>

\* C7: a step of a request of one identity leaves the documents of every other identity
\* unchanged; a GET answers with a document of its own identity whose layout is empty or
\* was put by that identity; a first GET creates the identity's own empty document; a
\* request without the X-User-Id header acts as "demo-user".
C7_IsolationByIdentity ==
    /\ [](C7_OwnDocuments)
    /\ [][/\ \A i \in 1..Len(reqs') : Acts(i) =>
                {d \in col' : d.userId # reqs'[i].user_id}
                    = {d \in col : d.userId # reqs'[i].user_id}
          /\ Len(reqs') > Len(reqs) =>
                /\ \A d \in DashboardIds, ok \in BOOLEAN :
                      GetBegin(NoHeader, d, ok) => reqs'[Len(reqs')].user_id = "demo-user"
                /\ \A d \in DashboardIds, b \in Bodies :
                      PutBegin(NoHeader, d, b) => reqs'[Len(reqs')].user_id = "demo-user"]_vars

\* alice stored a layout under a dashboard id and demo-user's first GET of the same id
\* created an empty document
C7_Witness ==
    \E i, j \in Ids :
        /\ IsPut(i) /\ reqs[i].user_id = Alice /\ reqs[i].upserted_id = i
        /\ reqs[i].body.layout # <<>>
        /\ lastPut[KeyOf(reqs[i])] = i
        /\ j > i /\ GetCreated(j) /\ reqs[j].user_id = DemoUser
        /\ reqs[j].dashboardId = reqs[i].dashboardId

C8_SameDocument ==
    \A i, j \in Ids :
        (/\ IsGet(i) /\ IsGet(j) /\ SameKey(i, j) /\ lastPut[KeyOf(reqs[i])] = 0
         /\ reqs[i].resp.code = 200 /\ reqs[j].resp.code = 200)
        => reqs[i].resp = reqs[j].resp

\* C8: a GET whose insert finds no document for the key adds exactly one document, with
\* layout [], and returns it; a GET that finds the document leaves the collection
\* unchanged and returns the stored document; no GET step changes or removes an existing
\* document; while no PUT has been applied to a key all its successful GETs return the
\* same document.
C8_GetOrCreate ==
    /\ [](C8_SameDocument)
    /\ [][\A i \in 1..Len(reqs') : (Acts(i) /\ reqs'[i].op = "GET") =>
            /\ col \subseteq col'
            /\ (Arrives(i) /\ reqs'[i].seen = "present") =>
                  /\ col' = col
                  /\ reqs'[i].resp = Resp(200, TRUE, "", "", "",
                                          SerializeDashboard(Stored(col, reqs'[i])))
            /\ (i \in Ids /\ reqs[i].pc = "insert" /\ reqs'[i].resp.cause # "unreachable") =>
                  IF Stored(col, reqs[i]) = Null
                  THEN /\ Cardinality(col') = Cardinality(col) + 1
                       /\ Stored(col', reqs[i]).layout = <<>>
                       /\ reqs'[i].resp.code = 200
                       /\ reqs'[i].resp.dashboard.layout = <<>>
                       /\ reqs'[i].resp.dashboard
                              = SerializeDashboard(Stored(col', reqs[i]))
                  ELSE col' = col]_vars

\* a GET created the document and, after the clock moved on, a second GET returned it unchanged
C8_Witness ==
    \E i, j \in Ids :
        /\ SameKey(i, j) /\ GetCreated(i)
        /\ IsGet(j) /\ reqs[j].seen = "present" /\ reqs[j].resp = reqs[i].resp
        /\ reqs[i].now < clock

\* C9: whichever store call of a GET or PUT fails, the request ends with the JSON error
\* envelope and status 500; no store failure leaves the handler as an unhandled exception.
C9_StoreFailuresEnveloped ==
    \A i \in Ids : (Done(i) /\ reqs[i].resp.cause = "unreachable") =>
        /\ reqs[i].resp.json
        /\ reqs[i].resp.code = 500
        /\ reqs[i].resp.error # ""

\* C10: the dashboard of a successful PUT response is the document read back after the
\* upsert: never null, with the request's userId and dashboardId, and with the layout of
\* the latest upsert applied to the key when it is read, which is the request's own layout
\* when no other PUT was applied to the key in between; no step removes a document.
C10_RereadAfterUpsert ==
    [][/\ \A d \in col : \E e \in col' :
              e.id = d.id /\ e.userId = d.userId /\ e.dashboardId = d.dashboardId
       /\ \A i \in Ids :
            (IsPut(i) /\ reqs[i].pc = "reread" /\ reqs'[i].resp.json) =>
               /\ reqs'[i].resp.code \in {200, 201}
               /\ reqs'[i].resp.dashboard # Null
               /\ reqs'[i].resp.dashboard.userId = reqs[i].user_id
               /\ reqs'[i].resp.dashboard.dashboardId = reqs[i].dashboardId
               /\ lastPut[KeyOf(reqs[i])] # 0
               /\ reqs'[i].resp.dashboard.layout
                     = reqs[lastPut[KeyOf(reqs[i])]].body.layout
               /\ lastPut[KeyOf(reqs[i])] = i =>
                     reqs'[i].resp.dashboard.layout = reqs[i].body.layout]_vars

\* a PUT answered with the layout of another PUT applied between its upsert and its read
C10_Witness ==
    \E i, j \in Ids :
        /\ i # j /\ SameKey(i, j) /\ PutSucceeded(i) /\ IsPut(j)
        /\ reqs[i].body.layout # reqs[j].body.layout
        /\ reqs[i].resp.dashboard.layout = reqs[j].body.layout
====
